---- MODULE Spec2Model ----
(***************************************************************************)
(* A model of the CHIP-8 interpreter of rusty-chip8: the state captured by *)
(* the event-loop closure of run() in src/main.rs, the Screen of           *)
(* src/screen.rs, and one action per window event the closure handles.     *)
(***************************************************************************)
EXTENDS Integers, Sequences, FiniteSets, TLC

VARIABLES
    memory,             \* [u8; 4096], as the map of its nonzero bytes (see Load)
    registers,          \* [u8; 16]
    register_i,         \* u16
    pc,                 \* u16
    stack,              \* [u16; 16]
    sp,                 \* u8
    delay_timer,        \* u8
    sound_timer,        \* u8
    pixels,             \* world.screen.pixels: [bool; 64 * 32], as the set of lit indices
    pressed_keys,       \* [bool; 16]
    waiting_for_key,    \* Option<usize>: {} is None, {x} is Some(x)
    paused,             \* bool
    lag,                \* i64, microseconds
    previous_time,      \* i64, microseconds since start_time
    surface_configured, \* bool
    overflow_checks,    \* build profile: TRUE panics on integer overflow, FALSE wraps
    halted,             \* "running", or the panic that ended the process
    frames,             \* history: RedrawRequested handlers run past the surface check
    renders,            \* history: calls of renderer.render()
    frame_ticks,        \* history: timer ticks of the latest frame
    frame_instrs,       \* history: instructions fetched in the latest frame
    total_ticks,        \* history: timer ticks since start
    unpaused_time,      \* history: elapsed time of the frames that passed `if !paused`
    last_pc,            \* history: address of the latest fetched instruction
    last_opcode,        \* history: the latest fetched opcode, -1 before the first
    wait_pc,            \* history: address of the Fx0A that set waiting_for_key
    dt_set, dt_age,     \* history: latest value written to delay_timer, ticks since
    st_set, st_age,     \* history: latest value written to sound_timer, ticks since
    origin              \* history: the rom given to run() and the registers, I and
                        \* display the behaviour started from

vars == <<memory, registers, register_i, pc, stack, sp, delay_timer, sound_timer,
          pixels, pressed_keys, waiting_for_key, paused, lag, previous_time,
          surface_configured, overflow_checks, halted, frames, renders,
          frame_ticks, frame_instrs, total_ticks, unpaused_time, last_pc,
          last_opcode, wait_pc, dt_set, dt_age, st_set, st_age, origin>>

----------------------------------------------------------------------------
(* Program constants *)

FRAME_TIME == 16666
INSTRUCTION_LEN == 2
speed == 15
MEMORY_SIZE == 4096
PROGRAM_START == 512
NUM_REGISTERS == 16
STACK_SIZE == 16
NUM_KEYS == 16
SCREEN_WIDTH == 64
SCREEN_HEIGHT == 32
SPRITE_WIDTH == 8

(* Bounds of the model *)

MaxFrames == 2      \* Spec: RedrawRequested events handled in one behaviour
MaxTimerFrames == 4 \* SpecTimer: RedrawRequested events handled in one behaviour
MaxHalfFrames == 4  \* SpecTimer: longest time between two frames, in half tick periods
MaxPeriods == 1     \* Spec: longest time between two frames, in whole tick periods
MaxKeys == 1        \* keypad keys pressed and released, besides the last one
RegEdge == 1        \* register indices drawn: 0..RegEdge, and F
ByteEdge == 2       \* byte values drawn: this many around 0, 128 and 255
MaxSteps == 20      \* instructions executed one at a time in one behaviour
MaxRows == 2        \* SpecDraw: rows of the sprites drawn
PosEdge == 1        \* SpecDraw: positions drawn, this many around the last column and row
MaxNest == 5        \* SpecStack: depth of the nested calls
LoadEdge == 1       \* SpecLoad: rom lengths drawn, this many around the largest that fits
CoordEdge == 1      \* SpecToggle: coordinates drawn, this many around each multiple of 32
MaxRun == 34        \* SpecBounds, SpecNest: instructions executed by a run
AddrEdge == 2       \* SpecBounds: addresses drawn, this many below the last of memory

RegIdx == (0 .. RegEdge) \cup {NUM_REGISTERS - 1}
ByteSamples ==
    (0 .. ByteEdge) \cup ((127 - ByteEdge) .. (128 + ByteEdge)) \cup ((255 - ByteEdge) .. 255)

----------------------------------------------------------------------------
(* Fixed-width arithmetic *)

U8 == 256
U16 == 65536

RECURSIVE BitAnd(_, _)
BitAnd(a, b) ==
    IF a = 0 \/ b = 0 THEN 0
    ELSE (a % 2) * (b % 2) + 2 * BitAnd(a \div 2, b \div 2)

RECURSIVE BitOr(_, _)
BitOr(a, b) ==
    IF a = 0 THEN b
    ELSE IF b = 0 THEN a
    ELSE (IF a % 2 = 1 \/ b % 2 = 1 THEN 1 ELSE 0) + 2 * BitOr(a \div 2, b \div 2)

RECURSIVE BitXor(_, _)
BitXor(a, b) ==
    IF a = 0 THEN b
    ELSE IF b = 0 THEN a
    ELSE ((a + b) % 2) + 2 * BitXor(a \div 2, b \div 2)

\* faulty variant: the carry is missed when the sum is exactly 256
OverflowingAddOffByOne(a, b) == <<(a + b) % U8, a + b > U8>>

\* u8::overflowing_add: the wrapped sum and whether it overflowed
OverflowingAdd(a, b) == <<(a + b) % U8, a + b >= U8>>

\* faulty variant: equal operands are taken to borrow
OverflowingSubBorrowsOnEqual(a, b) == <<(a - b + U8) % U8, a <= b>>

\* u8::overflowing_sub: the wrapped difference and whether it borrowed
OverflowingSub(a, b) == <<(a - b + U8) % U8, a < b>>

\* faulty variant: the sum saturates
SaturatingAdd(a, b) == IF a + b >= U8 THEN U8 - 1 ELSE a + b

\* u8::wrapping_add
WrappingAdd(a, b) == (a + b) % U8

BoolToU8(b) == IF b THEN 1 ELSE 0

----------------------------------------------------------------------------
(* The built-in font and the program image *)

SPRITES == <<
    <<240, 144, 144, 144, 240>>,  \* 0
    <<32, 96, 32, 32, 112>>,      \* 1
    <<240, 16, 240, 128, 240>>,   \* 2
    <<240, 16, 240, 16, 240>>,    \* 3
    <<144, 144, 240, 16, 16>>,    \* 4
    <<240, 128, 240, 16, 240>>,   \* 5
    <<240, 128, 240, 144, 240>>,  \* 6
    <<240, 16, 32, 64, 64>>,      \* 7
    <<240, 144, 240, 144, 240>>,  \* 8
    <<240, 144, 240, 16, 240>>,   \* 9
    <<240, 144, 240, 144, 144>>,  \* A
    <<224, 144, 224, 144, 224>>,  \* B
    <<240, 128, 128, 128, 240>>,  \* C
    <<224, 144, 144, 144, 224>>,  \* D
    <<240, 128, 240, 128, 240>>,  \* E
    <<240, 128, 240, 128, 128>>   \* F
>>

FontSize == Len(SPRITES) * Len(SPRITES[1])

\* memory[a], for an address inside the array: a byte the map does not hold is 0
Load(mem, a) == IF a \in DOMAIN mem THEN mem[a] ELSE 0

\* memory[a] = v, for an address inside the array
Store(mem, a, v) ==
    [b \in (IF v = 0 THEN DOMAIN mem \ {a} ELSE DOMAIN mem \cup {a}) |->
        IF b = a THEN v ELSE mem[b]]

\* the byte at address a after the two load loops, for a rom that fits
LoadedByte(rom, a) ==
    IF a >= PROGRAM_START /\ a < PROGRAM_START + Len(rom)
    THEN rom[a - PROGRAM_START + 1]
    ELSE IF a < FontSize THEN SPRITES[(a \div 5) + 1][(a % 5) + 1]
    ELSE 0

\* memory after the two load loops, for a rom (a sequence of bytes) that fits
LoadedMemory(rom) ==
    [a \in {b \in (0 .. (FontSize - 1)) \cup
                  (PROGRAM_START .. (PROGRAM_START + Len(rom) - 1)) :
                  LoadedByte(rom, b) # 0} |-> LoadedByte(rom, a)]

\* an opcode word from its four nibbles
Op(c, x, y, n) == c * 4096 + x * 256 + y * 16 + n

\* the big-endian bytes of a sequence of opcode words
RomBytes(words) ==
    [i \in 1 .. (2 * Len(words)) |->
        IF i % 2 = 1 THEN words[(i + 1) \div 2] \div 256
        ELSE words[i \div 2] % 256]

----------------------------------------------------------------------------
(* Screen (src/screen.rs) *)

\* Screen::clamp: one conditional subtraction per axis; `x < 0` is never true of a u8
clamp(x, y) ==
    << IF x > SCREEN_WIDTH THEN x - SCREEN_WIDTH ELSE x,
       IF y > SCREEN_HEIGHT THEN y - SCREEN_HEIGHT ELSE y >>

\* the index Screen::toggle computes
ToggleIndex(x, y) == clamp(x, y)[2] * SCREEN_WIDTH + clamp(x, y)[1]

NumPixels == SCREEN_WIDTH * SCREEN_HEIGHT

\* Screen::clear
ClearedPixels == {}

\* Screen::toggle: ok is FALSE when the index is outside pixels (the access panics)
toggle(px, x, y) ==
    LET index == ToggleIndex(x, y) IN
    IF index >= NumPixels
    THEN [ok |-> FALSE, pixels |-> px, previous |-> FALSE]
    ELSE [ok |-> TRUE,
          pixels |-> IF index \in px THEN px \ {index} ELSE px \cup {index},
          previous |-> index \in px]

----------------------------------------------------------------------------
(* The closure's state as one record, so that the handlers are operators *)

State ==
    [memory |-> memory, registers |-> registers, register_i |-> register_i, pc |-> pc,
     stack |-> stack, sp |-> sp, delay_timer |-> delay_timer,
     sound_timer |-> sound_timer, pixels |-> pixels, pressed_keys |-> pressed_keys,
     waiting_for_key |-> waiting_for_key, paused |-> paused, lag |-> lag,
     previous_time |-> previous_time, surface_configured |-> surface_configured,
     overflow_checks |-> overflow_checks, halted |-> halted, frames |-> frames,
     renders |-> renders, frame_ticks |-> frame_ticks, frame_instrs |-> frame_instrs,
     total_ticks |-> total_ticks, unpaused_time |-> unpaused_time, last_pc |-> last_pc,
     last_opcode |-> last_opcode, wait_pc |-> wait_pc, dt_set |-> dt_set, dt_age |-> dt_age,
     st_set |-> st_set, st_age |-> st_age]

Becomes(r) ==
    /\ memory' = r.memory /\ registers' = r.registers /\ register_i' = r.register_i
    /\ pc' = r.pc /\ stack' = r.stack /\ sp' = r.sp /\ delay_timer' = r.delay_timer
    /\ sound_timer' = r.sound_timer /\ pixels' = r.pixels
    /\ pressed_keys' = r.pressed_keys /\ waiting_for_key' = r.waiting_for_key
    /\ paused' = r.paused /\ lag' = r.lag /\ previous_time' = r.previous_time
    /\ surface_configured' = r.surface_configured
    /\ overflow_checks' = r.overflow_checks /\ halted' = r.halted
    /\ frames' = r.frames /\ renders' = r.renders /\ frame_ticks' = r.frame_ticks
    /\ frame_instrs' = r.frame_instrs /\ total_ticks' = r.total_ticks
    /\ unpaused_time' = r.unpaused_time /\ last_pc' = r.last_pc
    /\ last_opcode' = r.last_opcode /\ wait_pc' = r.wait_pc /\ dt_set' = r.dt_set /\ dt_age' = r.dt_age
    /\ st_set' = r.st_set /\ st_age' = r.st_age
    /\ origin' = origin

\* the state the closure captures, for a rom that fits in memory; the record
\* carries the rom along for `origin`
Created(rom, checks) ==
    [memory |-> LoadedMemory(rom),
     registers |-> [i \in 0 .. (NUM_REGISTERS - 1) |-> 0],
     register_i |-> 0, pc |-> PROGRAM_START,
     stack |-> [i \in 0 .. (STACK_SIZE - 1) |-> 0], sp |-> 0,
     delay_timer |-> 0, sound_timer |-> 0, pixels |-> ClearedPixels,
     pressed_keys |-> [i \in 0 .. (NUM_KEYS - 1) |-> FALSE],
     waiting_for_key |-> {}, paused |-> FALSE, lag |-> 0, previous_time |-> 0,
     surface_configured |-> FALSE, overflow_checks |-> checks, halted |-> "running",
     frames |-> 0, renders |-> 0, frame_ticks |-> 0, frame_instrs |-> 0,
     total_ticks |-> 0, unpaused_time |-> 0, last_pc |-> -1, last_opcode |-> -1,
     wait_pc |-> -1,
     dt_set |-> 0, dt_age |-> 0, st_set |-> 0, st_age |-> 0,
     rom |-> rom]

Halt(m, why) == [m EXCEPT !.halted = why]

OutOfBounds == "index out of bounds"
Overflowed == "arithmetic overflow"
Unreachable == "unreachable"

----------------------------------------------------------------------------
(* Opcode fields *)

Class(opcode) == opcode \div 4096          \* opcode & 0xF000, as the top nibble
Nnn(opcode) == opcode % 4096               \* opcode & 0x0FFF
Nibble(opcode) == opcode % 16              \* opcode & 0x000F
X(opcode) == (opcode \div 256) % 16        \* (opcode & 0x0F00) >> 8
Y(opcode) == (opcode \div 16) % 16         \* (opcode & 0x00F0) >> 4
Kk(opcode) == opcode % 256                 \* (opcode & 0x00FF) as u8

\* faulty variant: the uniform increment is of two instructions
AdvanceTwoInstructions(m) == [m EXCEPT !.pc = (m.pc + 2 * INSTRUCTION_LEN) % U16]

\* the uniform `pc += 2` after the dispatch
Advance(m) == [m EXCEPT !.pc = (m.pc + 2) % U16]

\* the conditional `pc += INSTRUCTION_LEN` of a skip, then the uniform increment
SkipIf(m, cond) ==
    Advance(IF cond THEN [m EXCEPT !.pc = (m.pc + INSTRUCTION_LEN) % U16] ELSE m)

----------------------------------------------------------------------------
(* Instructions with loops *)

\* Dxyn, inner loop: the 8 bits of one sprite row, most significant first.
\* registers[x] and registers[y] are read again for every pixel.
RECURSIVE DrawBits(_, _, _, _, _, _)
DrawBits(m, x, y, y_pixel, x_pixel, pixel) ==
    IF x_pixel >= SPRITE_WIDTH THEN m
    ELSE IF BitAnd(pixel, 128) > 0
    THEN LET t == toggle(m.pixels,
                         WrappingAdd(m.registers[x], x_pixel),
                         WrappingAdd(m.registers[y], y_pixel))
         IN IF ~t.ok THEN Halt(m, OutOfBounds)
            ELSE DrawBits([m EXCEPT !.pixels = t.pixels,
                                    !.registers[15] = IF t.previous THEN 1 ELSE @],
                          x, y, y_pixel, x_pixel + 1, (pixel * 2) % U8)
    ELSE DrawBits(m, x, y, y_pixel, x_pixel + 1, (pixel * 2) % U8)

\* Dxyn, outer loop: `height` rows read from memory[register_i + y_pixel]
RECURSIVE DrawRows(_, _, _, _, _)
DrawRows(m, x, y, height, y_pixel) ==
    IF y_pixel >= height \/ m.halted # "running" THEN m
    ELSE IF m.register_i + y_pixel >= MEMORY_SIZE THEN Halt(m, OutOfBounds)
    ELSE DrawRows(DrawBits(m, x, y, y_pixel, 0, Load(m.memory, m.register_i + y_pixel)),
                  x, y, height, y_pixel + 1)

\* faulty variant: for i in 0..x, registers[x] is not stored
RECURSIVE StoreRegistersExclusive(_, _, _)
StoreRegistersExclusive(m, x, i) ==
    IF i >= x THEN m
    ELSE IF m.register_i + i >= MEMORY_SIZE THEN Halt(m, OutOfBounds)
    ELSE StoreRegistersExclusive(
             [m EXCEPT !.memory = Store(@, m.register_i + i, m.registers[i])], x, i + 1)

\* Fx55: for i in 0..=x { memory[register_i + i] = registers[i] }
RECURSIVE StoreRegisters(_, _, _)
StoreRegisters(m, x, i) ==
    IF i > x THEN m
    ELSE IF m.register_i + i >= MEMORY_SIZE THEN Halt(m, OutOfBounds)
    ELSE StoreRegisters([m EXCEPT !.memory = Store(@, m.register_i + i, m.registers[i])],
                         x, i + 1)

\* faulty variant: the register after Vx is loaded too
RECURSIVE LoadRegistersPastX(_, _, _)
LoadRegistersPastX(m, x, i) ==
    IF i > x + 1 \/ i >= NUM_REGISTERS THEN m
    ELSE IF m.register_i + i >= MEMORY_SIZE THEN Halt(m, OutOfBounds)
    ELSE LoadRegistersPastX([m EXCEPT !.registers[i] = Load(m.memory, m.register_i + i)],
                            x, i + 1)

\* Fx65: for i in 0..=x { registers[i] = memory[register_i + i] }
RECURSIVE LoadRegisters(_, _, _)
LoadRegisters(m, x, i) ==
    IF i > x THEN m
    ELSE IF m.register_i + i >= MEMORY_SIZE THEN Halt(m, OutOfBounds)
    ELSE LoadRegisters([m EXCEPT !.registers[i] = Load(m.memory, m.register_i + i)],
                        x, i + 1)

\* faulty variant: the tens are not reduced modulo 10
StoreBcdTensUnreduced(m, x) ==
    LET v == m.registers[x]
        a == m.register_i
        hundreds == Store(m.memory, a, v \div 100)
        tens == Store(hundreds, a + 1, v \div 10)
        ones == Store(tens, a + 2, v % 10)
    IN IF a >= MEMORY_SIZE THEN Halt(m, OutOfBounds)
       ELSE IF a + 1 >= MEMORY_SIZE THEN Halt([m EXCEPT !.memory = hundreds], OutOfBounds)
       ELSE IF a + 2 >= MEMORY_SIZE THEN Halt([m EXCEPT !.memory = tens], OutOfBounds)
       ELSE [m EXCEPT !.memory = ones]

\* Fx33: three byte stores, each bounds-checked in turn
StoreBcd(m, x) ==
    LET v == m.registers[x]
        a == m.register_i
        hundreds == Store(m.memory, a, v \div 100)
        tens == Store(hundreds, a + 1, (v \div 10) % 10)
        ones == Store(tens, a + 2, v % 10)
    IN IF a >= MEMORY_SIZE THEN Halt(m, OutOfBounds)
       ELSE IF a + 1 >= MEMORY_SIZE THEN Halt([m EXCEPT !.memory = hundreds], OutOfBounds)
       ELSE IF a + 2 >= MEMORY_SIZE THEN Halt([m EXCEPT !.memory = tens], OutOfBounds)
       ELSE [m EXCEPT !.memory = ones]

----------------------------------------------------------------------------
(* The match on the opcode: one operator per class, each the set of outcomes *)

\* faulty variant: 00E0 calls Screen::fill
ExecSysFills(m, opcode) ==
    IF opcode = 224
    THEN {Advance([m EXCEPT !.pixels = 0 .. (NumPixels - 1)])}
    ELSE {Advance(m)}

\* faulty variant: every opcode of the class but 00EE clears the display
ExecSysClearsAlways(m, opcode) ==
    IF opcode = 238
    THEN IF m.sp = 0
         THEN {IF m.overflow_checks THEN Halt(m, Overflowed)
               ELSE Halt([m EXCEPT !.sp = U8 - 1], OutOfBounds)}
         ELSE {Advance([m EXCEPT !.sp = m.sp - 1, !.pc = m.stack[m.sp - 1]])}
    ELSE {Advance([m EXCEPT !.pixels = ClearedPixels])}

\* faulty variant: 00EE skips the uniform increment and resumes at the call
ExecSysReturnsToCall(m, opcode) ==
    IF opcode = 224
    THEN {Advance([m EXCEPT !.pixels = ClearedPixels])}
    ELSE IF opcode = 238
    THEN IF m.sp = 0
         THEN {IF m.overflow_checks THEN Halt(m, Overflowed)
               ELSE Halt([m EXCEPT !.sp = U8 - 1], OutOfBounds)}
         ELSE {[m EXCEPT !.sp = m.sp - 1, !.pc = m.stack[m.sp - 1]]}
    ELSE {Advance(m)}

\* 00E0, 00EE, 0nnn
ExecSys(m, opcode) ==
    IF opcode = 224
    THEN {Advance([m EXCEPT !.pixels = ClearedPixels])}
    ELSE IF opcode = 238
    THEN IF m.sp = 0
         THEN \* `sp -= 1` overflows; a wrapped sp of 255 is outside the stack
              {IF m.overflow_checks THEN Halt(m, Overflowed)
               ELSE Halt([m EXCEPT !.sp = U8 - 1], OutOfBounds)}
         ELSE {Advance([m EXCEPT !.sp = m.sp - 1, !.pc = m.stack[m.sp - 1]])}
    ELSE {Advance(m)}

\* faulty variant: the write to stack[sp] is not bounds-checked
ExecCallUnchecked(m, opcode) ==
    {[m EXCEPT !.stack = [i \in 0 .. (STACK_SIZE - 1) |-> IF i = m.sp THEN m.pc ELSE @[i]],
               !.sp = (m.sp + 1) % U8, !.pc = Nnn(opcode)]}

\* 2nnn
ExecCall(m, opcode) ==
    IF m.sp >= STACK_SIZE THEN {Halt(m, OutOfBounds)}
    ELSE {[m EXCEPT !.stack[m.sp] = m.pc, !.sp = m.sp + 1, !.pc = Nnn(opcode)]}

\* 8xy4
ExecAdd(m, x, y) ==
    LET r == OverflowingAdd(m.registers[x], m.registers[y])
    IN [m EXCEPT !.registers = [[@ EXCEPT ![x] = r[1]] EXCEPT ![15] = BoolToU8(r[2])]]

\* 8xy5
ExecSub(m, x, y) ==
    LET r == OverflowingSub(m.registers[x], m.registers[y])
    IN [m EXCEPT !.registers = [[@ EXCEPT ![x] = r[1]] EXCEPT ![15] = BoolToU8(~r[2])]]

\* 8xy7
ExecSubn(m, x, y) ==
    LET r == OverflowingSub(m.registers[y], m.registers[x])
    IN [m EXCEPT !.registers = [[@ EXCEPT ![x] = r[1]] EXCEPT ![15] = BoolToU8(~r[2])]]

\* 8xy6: VF is written first, registers[x] is shifted after
ExecShr(m, x) ==
    LET flagged == [m.registers EXCEPT ![15] = BitAnd(m.registers[x], 1)]
    IN [m EXCEPT !.registers = [flagged EXCEPT ![x] = flagged[x] \div 2]]

\* 8xyE: VF is written first, registers[x] is shifted after
ExecShl(m, x) ==
    LET flagged == [m.registers EXCEPT ![15] = BitAnd(m.registers[x], 128) \div 128]
    IN [m EXCEPT !.registers = [flagged EXCEPT ![x] = (flagged[x] * 2) % U8]]

\* 8xy0 .. 8xyE
ExecAlu(m, opcode) ==
    LET x == X(opcode)
        y == Y(opcode)
        n == Nibble(opcode)
        vx == m.registers[x]
        vy == m.registers[y]
    IN  IF n = 0 THEN {Advance([m EXCEPT !.registers[x] = vy])}
        ELSE IF n = 1 THEN {Advance([m EXCEPT !.registers[x] = BitOr(vx, vy)])}
        ELSE IF n = 2 THEN {Advance([m EXCEPT !.registers[x] = BitAnd(vx, vy)])}
        ELSE IF n = 3 THEN {Advance([m EXCEPT !.registers[x] = BitXor(vx, vy)])}
        ELSE IF n = 4 THEN {Advance(ExecAdd(m, x, y))}
        ELSE IF n = 5 THEN {Advance(ExecSub(m, x, y))}
        ELSE IF n = 6 THEN {Advance(ExecShr(m, x))}
        ELSE IF n = 7 THEN {Advance(ExecSubn(m, x, y))}
        ELSE IF n = 14 THEN {Advance(ExecShl(m, x))}
        ELSE {Halt(m, Unreachable)}

\* faulty variant: VF is not cleared before the sprite is drawn
ExecDrawKeepsFlag(m, opcode) ==
    LET d == DrawRows(m, X(opcode), Y(opcode), Nibble(opcode), 0)
    IN {IF d.halted # "running" THEN d ELSE Advance(d)}

\* Dxyn
ExecDraw(m, opcode) ==
    LET d == DrawRows([m EXCEPT !.registers[15] = 0], X(opcode), Y(opcode),
                      Nibble(opcode), 0)
    IN {IF d.halted # "running" THEN d ELSE Advance(d)}

\* Ex9E, ExA1: pressed_keys is indexed by the register's value
ExecKey(m, opcode) ==
    LET key == m.registers[X(opcode)]
        kk == Kk(opcode)
    IN  IF kk = 158
        THEN IF key >= NUM_KEYS THEN {Halt(m, OutOfBounds)}
             ELSE {SkipIf(m, m.pressed_keys[key])}
        ELSE IF kk = 161
        THEN IF key >= NUM_KEYS THEN {Halt(m, OutOfBounds)}
             ELSE {SkipIf(m, ~m.pressed_keys[key])}
        ELSE {Halt(m, Unreachable)}

\* faulty variant: the capture is recorded but execution is not paused
ExecWaitKeyNoPause(m, x) ==
    IF m.waiting_for_key = {}
    THEN [m EXCEPT !.waiting_for_key = {x}, !.wait_pc = m.last_pc]
    ELSE m

\* Fx0A
ExecWaitKey(m, x) ==
    IF m.waiting_for_key = {}
    THEN [m EXCEPT !.paused = TRUE, !.waiting_for_key = {x}, !.wait_pc = m.last_pc]
    ELSE m

\* Fx07 .. Fx65
ExecMisc(m, opcode) ==
    LET x == X(opcode)
        kk == Kk(opcode)
        vx == m.registers[x]
    IN  IF kk = 7 THEN {Advance([m EXCEPT !.registers[x] = m.delay_timer])}
        ELSE IF kk = 10 THEN {Advance(ExecWaitKey(m, x))}
        ELSE IF kk = 21
        THEN {Advance([m EXCEPT !.delay_timer = vx, !.dt_set = vx, !.dt_age = 0])}
        ELSE IF kk = 24
        THEN {Advance([m EXCEPT !.sound_timer = vx, !.st_set = vx, !.st_age = 0])}
        ELSE IF kk = 30
        THEN IF m.register_i + vx >= U16 /\ m.overflow_checks
             THEN {Halt(m, Overflowed)}
             ELSE {Advance([m EXCEPT !.register_i = (m.register_i + vx) % U16])}
        ELSE IF kk = 41
        THEN \* the product is a u8, widened to u16 after the multiplication
             IF vx * 5 >= U8 /\ m.overflow_checks
             THEN {Halt(m, Overflowed)}
             ELSE {Advance([m EXCEPT !.register_i = (vx * 5) % U8])}
        ELSE IF kk = 51
        THEN LET s == StoreBcd(m, x) IN {IF s.halted # "running" THEN s ELSE Advance(s)}
        ELSE IF kk = 85
        THEN LET s == StoreRegisters(m, x, 0)
             IN {IF s.halted # "running" THEN s ELSE Advance(s)}
        ELSE IF kk = 101
        THEN LET s == LoadRegisters(m, x, 0)
             IN {IF s.halted # "running" THEN s ELSE Advance(s)}
        ELSE {Halt(m, Unreachable)}

\* the match on opcode & 0xF000; jumps `continue` past the uniform `pc += 2`
Execute(m, opcode) ==
    LET c == Class(opcode)
        x == X(opcode)
        y == Y(opcode)
        kk == Kk(opcode)
    IN  IF c = 0 THEN ExecSys(m, opcode)
        ELSE IF c = 1 THEN {[m EXCEPT !.pc = Nnn(opcode)]}
        ELSE IF c = 2 THEN ExecCall(m, opcode)
        ELSE IF c = 3 THEN {SkipIf(m, m.registers[x] = kk)}
        ELSE IF c = 4 THEN {SkipIf(m, m.registers[x] # kk)}
        ELSE IF c = 5 THEN {SkipIf(m, m.registers[x] = m.registers[y])}
        ELSE IF c = 6 THEN {Advance([m EXCEPT !.registers[x] = kk])}
        ELSE IF c = 7 THEN {Advance([m EXCEPT !.registers[x] = WrappingAdd(@, kk)])}
        ELSE IF c = 8 THEN ExecAlu(m, opcode)
        ELSE IF c = 9 THEN {SkipIf(m, m.registers[x] # m.registers[y])}
        ELSE IF c = 10 THEN {Advance([m EXCEPT !.register_i = Nnn(opcode)])}
        ELSE IF c = 11 THEN {[m EXCEPT !.pc = Nnn(opcode) + m.registers[0]]}
        ELSE IF c = 12
        THEN {Advance([m EXCEPT !.registers[x] = BitAnd(r, kk)]) : r \in 0 .. (U8 - 1)}
        ELSE IF c = 13 THEN ExecDraw(m, opcode)
        ELSE IF c = 14 THEN ExecKey(m, opcode)
        ELSE ExecMisc(m, opcode)

\* faulty variant: the fetch wraps its two addresses into memory
StepFetchWraps(m) ==
    LET opcode == Load(m.memory, m.pc % MEMORY_SIZE) * 256
                  + Load(m.memory, (m.pc + 1) % MEMORY_SIZE)
    IN Execute([m EXCEPT !.frame_instrs = @ + 1, !.last_pc = m.pc,
                         !.last_opcode = opcode], opcode)

\* one iteration of the instruction loop after its `paused` check: fetch, decode, execute
Step(m) ==
    IF m.pc + 1 >= MEMORY_SIZE
    THEN {Halt(m, OutOfBounds)}
    ELSE LET opcode == Load(m.memory, m.pc) * 256 + Load(m.memory, m.pc + 1)
         IN Execute([m EXCEPT !.frame_instrs = @ + 1, !.last_pc = m.pc,
                              !.last_opcode = opcode], opcode)

\* faulty variant: one iteration too many
RECURSIVE InstructionLoopInclusive(_, _)
InstructionLoopInclusive(m, i) ==
    IF i > speed \/ m.paused \/ m.halted # "running" THEN {m}
    ELSE UNION {InstructionLoopInclusive(s, i + 1) : s \in Step(m)}

\* for i in 0..speed { if paused { break; } ... }; a panic ends the process
RECURSIVE InstructionLoop(_, _)
InstructionLoop(m, i) ==
    IF i >= speed \/ m.paused \/ m.halted # "running" THEN {m}
    ELSE UNION {InstructionLoop(s, i + 1) : s \in Step(m)}

----------------------------------------------------------------------------
(* WindowEvent::RedrawRequested *)

\* faulty variant: the timers are decremented without the test for zero
TickTimersUnchecked(m) ==
    [m EXCEPT !.delay_timer = (@ + U8 - 1) % U8,
              !.sound_timer = (@ + U8 - 1) % U8,
              !.lag = @ - FRAME_TIME,
              !.frame_ticks = @ + 1, !.total_ticks = @ + 1,
              !.dt_age = @ + 1, !.st_age = @ + 1]

\* one pass of the body of `while lag >= FRAME_TIME`
TickTimers(m) ==
    [m EXCEPT !.delay_timer = IF @ > 0 THEN @ - 1 ELSE @,
              !.sound_timer = IF @ > 0 THEN @ - 1 ELSE @,
              !.lag = @ - FRAME_TIME,
              !.frame_ticks = @ + 1, !.total_ticks = @ + 1,
              !.dt_age = @ + 1, !.st_age = @ + 1]

\* faulty variant: a lag of exactly one period is not consumed
RECURSIVE LagLoopStrict(_)
LagLoopStrict(m) == IF m.lag > FRAME_TIME THEN LagLoopStrict(TickTimers(m)) ELSE m

\* while lag >= FRAME_TIME { ... }
RECURSIVE LagLoop(_)
LagLoop(m) == IF m.lag >= FRAME_TIME THEN LagLoop(TickTimers(m)) ELSE m

\* faulty variant: the lag is accumulated and consumed while paused too
AccumulateWhilePaused(m, elapsed_time) ==
    LagLoop([m EXCEPT !.lag = @ + elapsed_time, !.unpaused_time = @ + elapsed_time])

\* faulty variant: a running frame adds all the time not yet added, the time
\* of the paused frames before it included
AccumulateCatchesUp(m, elapsed_time) ==
    IF ~m.paused
    THEN LagLoop([m EXCEPT !.lag = @ + (m.previous_time - m.unpaused_time),
                           !.unpaused_time = m.previous_time])
    ELSE m

\* if !paused { lag += elapsed_time; while ... }
Accumulate(m, elapsed_time) ==
    IF ~m.paused
    THEN LagLoop([m EXCEPT !.lag = @ + elapsed_time, !.unpaused_time = @ + elapsed_time])
    ELSE m

\* the handler past the surface check, for a clock reading current_time:
\* the timers, then the render, then the instructions
Frame(m, current_time) ==
    LET elapsed_time == current_time - m.previous_time
        timed == Accumulate([m EXCEPT !.previous_time = current_time,
                                      !.frames = @ + 1,
                                      !.frame_ticks = 0, !.frame_instrs = 0],
                            elapsed_time)
        rendered == [timed EXCEPT !.renders = @ + 1]
    IN InstructionLoop(rendered, 0)

\* the time between two readings of the monotonic clock
Elapsed == {k * (FRAME_TIME \div 2) : k \in 0 .. MaxHalfFrames}
ElapsedPeriods == {k * FRAME_TIME : k \in 0 .. MaxPeriods}

RedrawRequested(d) ==
    /\ halted = "running"
    /\ IF ~surface_configured
       THEN UNCHANGED vars
       ELSE \E r \in Frame(State, previous_time + d) : Becomes(r)

----------------------------------------------------------------------------
(* WindowEvent::KeyboardInput *)

KEY_MAP == <<"Digit1", "Digit2", "Digit3", "Digit4",
             "KeyQ", "KeyW", "KeyE", "KeyR",
             "KeyA", "KeyS", "KeyD", "KeyF",
             "KeyZ", "KeyX", "KeyC", "KeyV">>

\* get_key_index: Option<usize>, {} for None
get_key_index(key_code) == {i - 1 : i \in {j \in 1 .. Len(KEY_MAP) : KEY_MAP[j] = key_code}}

\* `paused = !paused` on a press of Space
ToggledPause(m, key_code, is_pressed) ==
    IF key_code = "Space" /\ is_pressed THEN [m EXCEPT !.paused = ~m.paused] ELSE m

\* faulty variant: the captured key does not resume execution
KeypadKeyStaysPaused(m, key_index, is_pressed) ==
    IF is_pressed
    THEN LET down == [m EXCEPT !.pressed_keys[key_index] = TRUE]
         IN IF down.waiting_for_key # {}
            THEN LET waiting_x == CHOOSE x \in down.waiting_for_key : TRUE
                 IN [down EXCEPT !.registers[waiting_x] = key_index,
                                 !.waiting_for_key = {}]
            ELSE down
    ELSE [m EXCEPT !.pressed_keys[key_index] = FALSE]

\* the branch for a key of the keypad
KeypadKey(m, key_index, is_pressed) ==
    IF is_pressed
    THEN LET down == [m EXCEPT !.pressed_keys[key_index] = TRUE]
         IN IF down.waiting_for_key # {}
            THEN LET waiting_x == CHOOSE x \in down.waiting_for_key : TRUE
                 IN [down EXCEPT !.registers[waiting_x] = key_index,
                                 !.paused = FALSE,
                                 !.waiting_for_key = {}]
            ELSE down
    ELSE [m EXCEPT !.pressed_keys[key_index] = FALSE]

\* the handler; key_code is "Unidentified" for a PhysicalKey that is no Code
KeyHandler(m, key_code, is_pressed, is_synthetic) ==
    IF is_synthetic \/ key_code = "Unidentified" THEN m
    ELSE LET toggled == ToggledPause(m, key_code, is_pressed)
             index == get_key_index(key_code)
         IN IF index # {}
            THEN KeypadKey(toggled, CHOOSE k \in index : TRUE, is_pressed)
            ELSE toggled

KeyboardInput(key_code, is_pressed, is_synthetic) ==
    /\ halted = "running"
    /\ Becomes(KeyHandler(State, key_code, is_pressed, is_synthetic))

\* the keypad keys that are pressed and released: the first ones and the last one
KeypadCodes == {KEY_MAP[i] : i \in (1 .. MaxKeys) \cup {Len(KEY_MAP)}}

\* the key events delivered: presses and releases of the keypad keys and of Space,
\* and presses of another key, of a key without a code, and synthetic presses
KeyEvents ==
    {<<key_code, is_pressed, FALSE>> :
        key_code \in KeypadCodes \cup {"Space"}, is_pressed \in BOOLEAN}
    \cup {<<"Escape", TRUE, FALSE>>, <<"Unidentified", TRUE, FALSE>>,
          <<"Space", TRUE, TRUE>>, <<KEY_MAP[Len(KEY_MAP)], TRUE, TRUE>>}

----------------------------------------------------------------------------
(* WindowEvent::Resized *)

Resized ==
    /\ halted = "running"
    /\ surface_configured' = TRUE
    /\ UNCHANGED <<memory, registers, register_i, pc, stack, sp, delay_timer,
                   sound_timer, pixels, pressed_keys, waiting_for_key, paused, lag,
                   previous_time, overflow_checks, halted, frames, renders,
                   frame_ticks, frame_instrs, total_ticks, unpaused_time, last_pc,
                   last_opcode, wait_pc, dt_set, dt_age, st_set, st_age, origin>>

----------------------------------------------------------------------------
(* The emulator running a program, driven by window events *)

\* waits for a key into Vx, then counts in V1 and reads the delay timer, in a loop
KeyWaitRom(x) ==
    <<Op(6, 0, 0, 3),       \* 200: V0 := 3
      Op(15, 0, 1, 5),      \* 202: DT := V0
      Op(15, 0, 1, 8),      \* 204: ST := V0
      Op(15, x, 0, 10),     \* 206: Vx := key
      Op(15, 2, 0, 7),      \* 208: V2 := DT
      Op(7, 1, 0, 1),       \* 20A: V1 += 1
      Op(1, 2, 0, 6)>>      \* 20C: JP 206

\* sets both timers, then reads the delay timer for ever
TimerRom ==
    <<Op(6, 0, 0, 5),       \* 200: V0 := 5
      Op(15, 0, 1, 5),      \* 202: DT := V0
      Op(6, 0, 0, 2),       \* 204: V0 := 2
      Op(15, 0, 1, 8),      \* 206: ST := V0
      Op(15, 2, 0, 7),      \* 208: V2 := DT
      Op(1, 2, 0, 8)>>      \* 20A: JP 208

Roms == {KeyWaitRom(x) : x \in RegIdx}

InitTo(r) ==
    /\ memory = r.memory /\ registers = r.registers /\ register_i = r.register_i
    /\ pc = r.pc /\ stack = r.stack /\ sp = r.sp /\ delay_timer = r.delay_timer
    /\ sound_timer = r.sound_timer /\ pixels = r.pixels
    /\ pressed_keys = r.pressed_keys /\ waiting_for_key = r.waiting_for_key
    /\ paused = r.paused /\ lag = r.lag /\ previous_time = r.previous_time
    /\ surface_configured = r.surface_configured
    /\ overflow_checks = r.overflow_checks /\ halted = r.halted
    /\ frames = r.frames /\ renders = r.renders /\ frame_ticks = r.frame_ticks
    /\ frame_instrs = r.frame_instrs /\ total_ticks = r.total_ticks
    /\ unpaused_time = r.unpaused_time /\ last_pc = r.last_pc
    /\ last_opcode = r.last_opcode /\ wait_pc = r.wait_pc /\ dt_set = r.dt_set /\ dt_age = r.dt_age
    /\ st_set = r.st_set /\ st_age = r.st_age
    /\ origin = [rom |-> r.rom, registers |-> r.registers,
                 register_i |-> r.register_i, pixels |-> r.pixels]

Init == \E words \in Roms, checks \in BOOLEAN : InitTo(Created(RomBytes(words), checks))

Next ==
    \/ Resized
    \/ \E d \in ElapsedPeriods : frames < MaxFrames /\ RedrawRequested(d)
    \/ \E e \in KeyEvents : KeyboardInput(e[1], e[2], e[3])

Spec == Init /\ [][Next]_vars

----------------------------------------------------------------------------
(* The scheduler and the timers: frames and the pause toggle only *)

InitTimer == \E checks \in BOOLEAN : InitTo(Created(RomBytes(TimerRom), checks))

NextTimer ==
    \/ Resized
    \/ \E d \in Elapsed : frames < MaxTimerFrames /\ RedrawRequested(d)
    \/ \E is_pressed \in BOOLEAN : KeyboardInput("Space", is_pressed, FALSE)

SpecTimer == InitTimer /\ [][NextTimer]_vars

----------------------------------------------------------------------------
(* One instruction applied to drawn operands *)

\* the 8xyN instructions that write the flag register
FlagOps == {4, 5, 6, 7, 14}

\* a machine about to execute the single instruction `opcode`, with Vx = a and Vy = b
\* (Vx = Vy = a when x = y) and a stale value in every other register
Operands(opcode, a, b, checks) ==
    [Created(RomBytes(<<opcode>>), checks) EXCEPT
        !.registers = [i \in 0 .. (NUM_REGISTERS - 1) |->
                          IF i = X(opcode) THEN a ELSE IF i = Y(opcode) THEN b ELSE 170]]

InitAlu ==
    \E n \in FlagOps, x \in RegIdx, y \in RegIdx, a \in ByteSamples, b \in ByteSamples,
       checks \in BOOLEAN :
        InitTo(Operands(Op(8, x, y, n), a, b, checks))

\* the body of the instruction loop, once
ExecuteOne ==
    /\ halted = "running"
    /\ last_opcode = -1
    /\ \E s \in Step(State) : Becomes(s)

NextAlu == ExecuteOne

SpecAlu == InitAlu /\ [][NextAlu]_vars

----------------------------------------------------------------------------
(* A program executed one instruction at a time *)

\* the opcode the next fetch reads
NextOpcode == Load(memory, pc) * 256 + Load(memory, pc + 1)

\* the body of the instruction loop, once, for as long as the program goes on:
\* the programs below end in zeroed memory
ExecuteNext ==
    /\ halted = "running"
    /\ NextOpcode # 0
    /\ frame_instrs < MaxSteps
    /\ \E s \in Step(State) : Becomes(s)

----------------------------------------------------------------------------
(* Dxyn executed twice on a drawn sprite, position and display *)

DrawRegs == {0, 1, NUM_REGISTERS - 1}
SpriteRows == {128, 193}      \* 0x80 and 0xC1
ColumnSamples ==
    {0} \cup ((SCREEN_WIDTH - 1 - PosEdge) .. (SCREEN_WIDTH - 1 + PosEdge))
RowSamples ==
    {0} \cup ((SCREEN_HEIGHT - 1 - PosEdge) .. (SCREEN_HEIGHT - 1 + PosEdge))
DrawnSprites == UNION {[1 .. n -> SpriteRows] : n \in 1 .. MaxRows}

\* the displays a draw starts from: cleared, or with the border of the screen lit
Backgrounds ==
    {ClearedPixels,
     {i \in 0 .. (NumPixels - 1) :
        \/ i % SCREEN_WIDTH \in {0, SCREEN_WIDTH - 1}
        \/ i \div SCREEN_WIDTH \in {0, SCREEN_HEIGHT - 1}}}

\* the same Dxyn twice, then the sprite's bytes after a zero word
DrawRom(x, y, sprite) ==
    RomBytes(<<Op(13, x, y, Len(sprite)), Op(13, x, y, Len(sprite)), 0>>) \o sprite

SpriteAddress == PROGRAM_START + 6

\* a machine about to draw: I at the sprite, Vx = a, Vy = b (Vx = Vy = a when x = y),
\* VF = f unless F is one of the two, a stale value in every other register
DrawMachine(x, y, a, b, f, sprite, background, checks) ==
    [Created(DrawRom(x, y, sprite), checks) EXCEPT
        !.registers = [i \in 0 .. (NUM_REGISTERS - 1) |->
                          IF i = x THEN a ELSE IF i = y THEN b
                          ELSE IF i = NUM_REGISTERS - 1 THEN f ELSE 170],
        !.register_i = SpriteAddress,
        !.pixels = background]

InitDraw ==
    \E x \in DrawRegs, y \in DrawRegs, a \in ColumnSamples, b \in RowSamples,
       f \in {0, 1}, sprite \in DrawnSprites, background \in Backgrounds,
       checks \in BOOLEAN :
        InitTo(DrawMachine(x, y, a, b, f, sprite, background, checks))

NextDraw == ExecuteNext

SpecDraw == InitDraw /\ [][NextDraw]_vars

----------------------------------------------------------------------------
(* One skip instruction applied to drawn registers and keys *)

\* an opcode word from its class, x and low byte
OpKk(c, x, kk) == Op(c, x, kk \div 16, kk % 16)

\* the sets of keys held down: none, the first, all
KeyStates == {{}, {0}, 0 .. (NUM_KEYS - 1)}

\* a machine about to execute `opcode` with Vx = a, Vy = b and the keys of `keys` down
SkipMachine(opcode, a, b, keys, checks) ==
    [Operands(opcode, a, b, checks) EXCEPT
        !.pressed_keys = [k \in 0 .. (NUM_KEYS - 1) |-> k \in keys]]

InitSkip ==
    \E checks \in BOOLEAN, x \in RegIdx, a \in ByteSamples :
        \/ \E c \in {3, 4}, kk \in ByteSamples :
              InitTo(SkipMachine(OpKk(c, x, kk), a, 170, {}, checks))
        \/ \E c \in {5, 9}, y \in RegIdx, b \in ByteSamples :
              InitTo(SkipMachine(Op(c, x, y, 0), a, b, {}, checks))
        \/ \E kk \in {158, 161}, keys \in KeyStates :
              InitTo(SkipMachine(OpKk(14, x, kk), a, 170, keys, checks))

NextSkip == ExecuteOne

SpecSkip == InitSkip /\ [][NextSkip]_vars

----------------------------------------------------------------------------
(* Programs that store to memory at a drawn I: Fx55, Fx65, Fx33 *)

\* Fx55, then V0 .. Vx set to zero one by one, then Fx65
StoreLoadRom(x) ==
    <<Op(15, x, 5, 5)>> \o [i \in 1 .. (x + 1) |-> Op(6, i - 1, 0, 0)]
                        \o <<Op(15, x, 6, 5)>>

\* Fx33 alone
BcdRom(x) == <<Op(15, x, 3, 3)>>

StoreRoms == {StoreLoadRom(x) : x \in RegIdx} \cup {BcdRom(x) : x \in RegIdx}

\* values of I: in the font, past the program, and at the end of memory
AddressSamples ==
    {0, FontSize - 2, PROGRAM_START + 256, MEMORY_SIZE - NUM_REGISTERS, MEMORY_SIZE - 1}

\* the contents the registers start with
RegisterFills ==
    {[i \in 0 .. (NUM_REGISTERS - 1) |-> 170],
     [i \in 0 .. (NUM_REGISTERS - 1) |-> i + 1],
     [i \in 0 .. (NUM_REGISTERS - 1) |-> U8 - 1 - i]}

StoreMachine(words, fill, i, checks) ==
    [Created(RomBytes(words), checks) EXCEPT !.registers = fill, !.register_i = i]

InitStore ==
    \E words \in StoreRoms, fill \in RegisterFills, i \in AddressSamples,
       checks \in BOOLEAN :
        InitTo(StoreMachine(words, fill, i, checks))

NextStore == ExecuteNext

SpecStore == InitStore /\ [][NextStore]_vars

----------------------------------------------------------------------------
(* One opcode outside the instruction set *)

\* opcodes that are no CHIP-8 instruction: 8xyN with N in 8..D or F, 5xyN and 9xyN
\* with N # 0, Exkk and Fxkk with another kk
UndefinedOpcodes ==
    {Op(8, x, y, n) : x \in RegIdx, y \in RegIdx, n \in (8 .. 13) \cup {15}}
    \cup {Op(c, x, y, n) : c \in {5, 9}, x \in RegIdx, y \in RegIdx, n \in {1, 15}}
    \cup {OpKk(14, x, kk) : x \in RegIdx, kk \in {0, 157, 159, 160, 162, 255}}
    \cup {OpKk(15, x, kk) : x \in RegIdx, kk \in {0, 8, 11, 31, 84, 102, 255}}

InitUndefined ==
    \E opcode \in UndefinedOpcodes, a \in {0, 1}, b \in {0, 1}, checks \in BOOLEAN :
        InitTo(Operands(opcode, a, b, checks))

NextUndefined == ExecuteOne

SpecUndefined == InitUndefined /\ [][NextUndefined]_vars

----------------------------------------------------------------------------
(* Programs of calls and returns *)

\* 2200 at 0x200: a call of itself
CallSelfRom == <<Op(2, 2, 0, 0)>>

\* 00EE with nothing on the stack
ReturnRom == <<Op(0, 0, 14, 14)>>

\* two calls of a subroutine that returns at once, then a return too many
CallReturnRom ==
    <<Op(2, 2, 0, 6),       \* 200: CALL 206
      Op(2, 2, 0, 6),       \* 202: CALL 206
      Op(0, 0, 14, 14),     \* 204: RET
      Op(0, 0, 14, 14)>>    \* 206: RET

\* k calls, each of the next address, then a return
NestRom(k) ==
    [i \in 1 .. k |-> Op(2, 0, 0, 0) + PROGRAM_START + 2 * i] \o <<Op(0, 0, 14, 14)>>

StackRoms == {CallSelfRom, ReturnRom, CallReturnRom} \cup {NestRom(k) : k \in 1 .. MaxNest}

InitStack ==
    \E words \in StackRoms, checks \in BOOLEAN : InitTo(Created(RomBytes(words), checks))

NextStack == ExecuteNext

SpecStack == InitStack /\ [][NextStack]_vars

----------------------------------------------------------------------------
(* run() from its start: the rom loaded, then the event loop *)

\* the longest rom the load loop can copy
MaxRomLen == MEMORY_SIZE - PROGRAM_START

\* run() up to the event loop. The load loop writes memory[0x200 + i] for every byte
\* of the rom: for a rom that is too long the write at memory[4096] panics, after
\* the bytes that fit were copied.
Loaded(rom, checks) ==
    IF Len(rom) > MaxRomLen
    THEN [Halt(Created(SubSeq(rom, 1, MaxRomLen), checks), OutOfBounds) EXCEPT !.rom = rom]
    ELSE Created(rom, checks)

\* a rom of `len` bytes: the program, then zeros with a mark every 512 bytes and
\* a last byte of 255
PaddedRom(words, len) ==
    [i \in 1 .. len |->
        IF i <= 2 * Len(words) THEN RomBytes(words)[i]
        ELSE IF i = len THEN U8 - 1
        ELSE IF i % 512 = 0 THEN i \div 512
        ELSE 0]

RomLengths ==
    {2 * Len(TimerRom)} \cup ((MaxRomLen - LoadEdge) .. (MaxRomLen + LoadEdge))

InitLoad ==
    \E len \in RomLengths, checks \in BOOLEAN :
        InitTo(Loaded(PaddedRom(TimerRom, len), checks))

NextLoad ==
    \/ Resized
    \/ \E d \in ElapsedPeriods : frames < MaxFrames /\ RedrawRequested(d)
    \/ \E is_pressed \in BOOLEAN : KeyboardInput("Space", is_pressed, FALSE)

SpecLoad == InitLoad /\ [][NextLoad]_vars

----------------------------------------------------------------------------
(* The program 00E0, 1200 under the scheduler *)

ClearRom ==
    <<Op(0, 0, 14, 0),      \* 200: CLS
      Op(1, 2, 0, 0)>>      \* 202: JP 200

InitClear == \E checks \in BOOLEAN : InitTo(Created(RomBytes(ClearRom), checks))

NextClear ==
    \/ Resized
    \/ \E d \in Elapsed : frames < MaxTimerFrames /\ RedrawRequested(d)
    \/ \E is_pressed \in BOOLEAN : KeyboardInput("Space", is_pressed, FALSE)

SpecClear == InitClear /\ [][NextClear]_vars

----------------------------------------------------------------------------
(* Fx29 then Dxy5: a digit of the font drawn on a cleared display *)

Digits == 0 .. (Len(SPRITES) - 1)

\* positions on the display: the corner, the last at which the four lit columns and
\* five rows of a digit fit, and the next
DigitColumns == {0, SCREEN_WIDTH - 4, SCREEN_WIDTH - 3}
DigitRows == {0, SCREEN_HEIGHT - 5, SCREEN_HEIGHT - 4}

\* Fd29 with the digit in Vd, then Dxy5
DigitRom(d, x, y) == <<Op(15, d, 2, 9), Op(13, x, y, 5)>>

\* Vd = digit, Vx = a, Vy = b (the register named first wins where they coincide)
DigitMachine(d, x, y, digit, a, b, checks) ==
    [Created(RomBytes(DigitRom(d, x, y)), checks) EXCEPT
        !.registers = [i \in 0 .. (NUM_REGISTERS - 1) |->
                          IF i = d THEN digit ELSE IF i = x THEN a
                          ELSE IF i = y THEN b ELSE 170]]

InitDigit ==
    \E d \in RegIdx, x \in DrawRegs, y \in DrawRegs, digit \in Digits,
       a \in DigitColumns, b \in DigitRows, checks \in BOOLEAN :
        InitTo(DigitMachine(d, x, y, digit, a, b, checks))

NextDigit == ExecuteNext

SpecDigit == InitDigit /\ [][NextDigit]_vars

----------------------------------------------------------------------------
(* Programs that go through the instruction set *)

\* every kind of control transfer and skip, around a subroutine
TourRom ==
    <<Op(0, 0, 14, 0),      \* 200: CLS
      Op(0, 10, 11, 12),    \* 202: SYS ABC
      Op(2, 2, 3, 0),       \* 204: CALL 230
      Op(6, 10, 0, 5),      \* 206: VA := 5
      Op(7, 10, 0, 1),      \* 208: VA += 1
      Op(8, 10, 11, 1),     \* 20A: VA |= VB
      Op(10, 3, 0, 0),      \* 20C: I := 300
      Op(12, 1, 0, 1),      \* 20E: V1 := random & 1
      Op(3, 1, 0, 0),       \* 210: SE V1, 0
      Op(4, 1, 0, 0),       \* 212: SNE V1, 0
      Op(5, 1, 2, 0),       \* 214: SE V1, V2
      Op(9, 1, 2, 0),       \* 216: SNE V1, V2
      Op(14, 1, 9, 14),     \* 218: SKP V1
      Op(14, 1, 10, 1),     \* 21A: SKNP V1
      Op(10, 3, 0, 0),      \* 21C: I := 300
      Op(6, 0, 0, 2),       \* 21E: V0 := 2
      Op(11, 2, 2, 4),      \* 220: JP V0, 224
      0, 0,                 \* 222, 224
      Op(1, 2, 2, 10),      \* 226: JP 22A
      0, 0, 0, 0,           \* 228 .. 22E
      Op(7, 11, 0, 1),      \* 230: VB += 1
      Op(0, 0, 14, 14)>>    \* 232: RET

\* the timers, the index register, memory, the display and the key wait
MiscRom ==
    <<Op(10, 3, 0, 0),      \* 200: I := 300
      Op(15, 1, 0, 7),      \* 202: V1 := DT
      Op(15, 1, 1, 5),      \* 204: DT := V1
      Op(15, 1, 1, 8),      \* 206: ST := V1
      Op(15, 1, 1, 14),     \* 208: I += V1
      Op(6, 1, 0, 3),       \* 20A: V1 := 3
      Op(6, 2, 0, 5),       \* 20C: V2 := 5
      Op(15, 1, 2, 9),      \* 20E: I := digit V1
      Op(13, 1, 2, 5),      \* 210: DRW V1, V2, 5
      Op(10, 3, 0, 0),      \* 212: I := 300
      Op(15, 1, 3, 3),      \* 214: BCD V1
      Op(15, 1, 5, 5),      \* 216: store V0..V1
      Op(15, 1, 6, 5),      \* 218: load V0..V1
      Op(8, 1, 2, 4),       \* 21A: V1 += V2
      Op(15, 1, 0, 10)>>    \* 21C: wait for a key

TourRoms == {TourRom, MiscRom}

InitTour ==
    \E words \in TourRoms, fill \in RegisterFills, checks \in BOOLEAN :
        InitTo(StoreMachine(words, fill, 0, checks))

NextTour == ExecuteNext

SpecTour == InitTour /\ [][NextTour]_vars

----------------------------------------------------------------------------
(* Screen::toggle applied to one cell: Dxy1 on the sprite row 0x80 *)

\* the 8-bit coordinates at and next to the multiples of the display's height
CoordSamples ==
    {c \in 0 .. (U8 - 1) :
        \E k \in 0 .. (U8 \div SCREEN_HEIGHT) :
            c - k * SCREEN_HEIGHT \in (0 - CoordEdge) .. CoordEdge}

InitToggle ==
    \E a \in CoordSamples, b \in CoordSamples, background \in Backgrounds,
       checks \in BOOLEAN :
        InitTo(DrawMachine(0, 1, a, b, 0, <<128>>, background, checks))

NextToggle == ExecuteOne

SpecToggle == InitToggle /\ [][NextToggle]_vars

----------------------------------------------------------------------------
(* One instruction at the end of memory, then whatever the memory holds *)

\* the body of the instruction loop, once; zeroed memory is executed as 0nnn
ExecuteAny ==
    /\ halted = "running"
    /\ frame_instrs < MaxRun
    /\ \E s \in Step(State) : Becomes(s)

\* jumps to the last addresses, a jump through V0 past them, and the instructions
\* that address memory from I
BoundOpcodes ==
    {Op(1, 0, 0, 0) + a : a \in (MEMORY_SIZE - 1 - AddrEdge) .. (MEMORY_SIZE - 1)}
    \cup {Op(11, 0, 0, 0) + MEMORY_SIZE - 1, Op(13, 0, 1, 3)}
    \cup {OpKk(15, x, kk) : x \in RegIdx, kk \in {51, 85, 101}}

\* the values of I around the end of memory, and the largest
EdgeAddresses ==
    ((MEMORY_SIZE - 1 - AddrEdge) .. MEMORY_SIZE)
    \cup {MEMORY_SIZE - NUM_REGISTERS, U16 - 1}

InitBounds ==
    \E opcode \in BoundOpcodes, fill \in RegisterFills, i \in EdgeAddresses,
       checks \in BOOLEAN :
        InitTo(StoreMachine(<<opcode>>, fill, i, checks))

NextBounds == ExecuteAny

SpecBounds == InitBounds /\ [][NextBounds]_vars

----------------------------------------------------------------------------
(* One opcode of class 0 *)

\* 00E0 and the class-0 opcodes that are neither 00E0 nor 00EE: the first and the
\* last, those next to 00E0 and 00EE, and one more
SysOpcodes == {0, 1, 223, 224, 225, 237, 239, Op(0, 1, 2, 3), MEMORY_SIZE - 1}

InitSys ==
    \E opcode \in SysOpcodes, fill \in RegisterFills, i \in {0, PROGRAM_START + 256},
       background \in Backgrounds, checks \in BOOLEAN :
        InitTo([StoreMachine(<<opcode>>, fill, i, checks) EXCEPT !.pixels = background])

NextSys == ExecuteOne

SpecSys == InitSys /\ [][NextSys]_vars

----------------------------------------------------------------------------
(* Fx33 on every value of a register *)

\* I inside the font, in free memory, and at the last three bytes
BcdAddresses == {FontSize - 3, PROGRAM_START + 256, MEMORY_SIZE - 3}

InitBcd ==
    \E x \in RegIdx, v \in 0 .. (U8 - 1), i \in BcdAddresses, checks \in BOOLEAN :
        InitTo([Operands(OpKk(15, x, 51), v, 0, checks) EXCEPT !.register_i = i])

NextBcd == ExecuteOne

SpecBcd == InitBcd /\ [][NextBcd]_vars

----------------------------------------------------------------------------
(* Properly nested calls, each returned from *)

\* the first subroutine; subroutine i is at SubroutineStart + 4 * (i - 1)
SubroutineStart == PROGRAM_START + 4

\* a call of subroutine 1 and a jump to itself after it; subroutine i < k calls
\* subroutine i + 1 and returns, subroutine k returns
DeepRom(k) ==
    <<Op(2, 0, 0, 0) + SubroutineStart, Op(1, 0, 0, 0) + PROGRAM_START + 2>>
    \o [j \in 1 .. (2 * k) |->
           LET i == (j + 1) \div 2
           IN  IF j % 2 = 1
               THEN IF i < k THEN Op(2, 0, 0, 0) + SubroutineStart + 4 * i
                    ELSE Op(0, 0, 14, 14)
               ELSE IF i < k THEN Op(0, 0, 14, 14) ELSE 0]

Depths == (1 .. MaxNest) \cup {STACK_SIZE}

InitNest ==
    \E k \in Depths, checks \in BOOLEAN : InitTo(Created(RomBytes(DeepRom(k)), checks))

NextNest == ExecuteAny

SpecNest == InitNest /\ [][NextNest]_vars

----------------------------------------------------------------------------
(* Fx29 on every value of a register *)

InitFont ==
    \E x \in RegIdx, v \in 0 .. (U8 - 1), checks \in BOOLEAN :
        InitTo(Operands(OpKk(15, x, 41), v, 0, checks))

NextFont == ExecuteOne

SpecFont == InitFont /\ [][NextFont]_vars

----------------------------------------------------------------------------
(* 7xkk on every value of a register *)

InitAddByte ==
    \E x \in RegIdx, v \in 0 .. (U8 - 1), kk \in ByteSamples, checks \in BOOLEAN :
        InitTo(Operands(OpKk(7, x, kk), v, 170, checks))

NextAddByte == ExecuteOne

SpecAddByte == InitAddByte /\ [][NextAddByte]_vars

----------------------------------------------------------------------------
(* Properties *)

IsWaitKey(opcode) == Class(opcode) = 15 /\ Kk(opcode) = 10
IsReadDelay(opcode) == Class(opcode) = 15 /\ Kk(opcode) = 7
Max0(n) == IF n > 0 THEN n ELSE 0

\* a step that ran the RedrawRequested handler past the surface check
FrameStep == frames' = frames + 1

\* a step of SpecAlu that executed the instruction 8xyN with N = n
AluStep(n) ==
    /\ last_opcode = -1 /\ last_opcode' # -1
    /\ Class(last_opcode') = 8 /\ Nibble(last_opcode') = n

C2_KeyDownCaptures ==
    [][\A k \in 0 .. (NUM_KEYS - 1) :
          (waiting_for_key # {} /\ KeyboardInput(KEY_MAP[k + 1], TRUE, FALSE)) =>
              /\ \A x \in waiting_for_key : registers' = [registers EXCEPT ![x] = k]
              /\ waiting_for_key' = {}
              /\ ~paused']_vars

\* C2 witness: the last keypad key was captured into the register of the Fx0A
C2_KeyCaptured ==
    /\ waiting_for_key = {} /\ ~paused /\ wait_pc # -1 /\ last_pc = wait_pc
    /\ pressed_keys[NUM_KEYS - 1]
    /\ registers[X(last_opcode)] = NUM_KEYS - 1

\* C3: while a key capture is pending, under every host event that leaves it pending
\* (frames, key-up events, the Space toggle), no instruction is fetched and PC,
\* registers, memory and display do not change.
C3_NothingRunsWhileCapturePending ==
    [][(waiting_for_key # {} /\ waiting_for_key' # {}) =>
          /\ UNCHANGED <<pc, registers, memory, pixels>>
          /\ FrameStep => frame_instrs' = 0]_vars

C5_TicksFollowUnpausedTime ==
    /\ total_ticks = unpaused_time \div FRAME_TIME
    /\ lag = unpaused_time % FRAME_TIME
    /\ 0 <= lag /\ lag < FRAME_TIME

\* C5 witness: several frames, none of them a whole number of periods in total,
\* with paused time in between
C5_TicksOverSeveralFrames ==
    /\ frames >= 3 /\ total_ticks >= 2 /\ lag > 0
    /\ unpaused_time > 0 /\ previous_time > unpaused_time

\* C6: k ticks after Fx15 (Fx18) wrote v with no write since, the delay (sound) timer
\* holds max(v - k, 0), each timer on its own; and where the latest instruction is
\* Fx07, Vx holds the delay timer.
C6_TimersCountDown ==
    /\ delay_timer = Max0(dt_set - dt_age)
    /\ sound_timer = Max0(st_set - st_age)
    /\ IsReadDelay(last_opcode) => registers[X(last_opcode)] = delay_timer

\* C6 witness: the delay timer part way down and read by Fx07, the sound timer held
\* at zero by a tick it had nothing left for
C6_DelayRunningSoundExpired ==
    /\ IsReadDelay(last_opcode) /\ registers[X(last_opcode)] = dt_set - dt_age
    /\ dt_set > 0 /\ dt_age >= 2 /\ delay_timer > 0
    /\ st_set > 0 /\ st_age > st_set /\ sound_timer = 0

\* C7: a host frame handled while paused renders, decrements no timer, executes no
\* instruction, and leaves PC, registers, memory and timers as they were.
C7_PausedFrameOnlyRenders ==
    [][(paused /\ FrameStep) =>
          /\ renders' = renders + 1
          /\ frame_ticks' = 0 /\ frame_instrs' = 0
          /\ UNCHANGED <<pc, registers, register_i, memory, stack, sp, pixels,
                         delay_timer, sound_timer, lag>>]_vars

\* C7 witness: paused by the user with both timers running, a frame handled, and at
\* least a tick period of time gone by in paused frames
C7_PausedFrameHandled ==
    /\ paused /\ waiting_for_key = {} /\ frames >= 2 /\ frame_instrs = 0
    /\ renders = frames /\ delay_timer > 0 /\ sound_timer > 0
    /\ previous_time - unpaused_time >= FRAME_TIME

\* C8: 8xy4 with a = Vx and b = Vy leaves VF = 1 if a + b > 255 and VF = 0 otherwise,
\* for every x and y, and Vx = (a + b) mod 256 for x # F.
C8_AddSetsCarry ==
    [][AluStep(4) =>
          LET x == X(last_opcode')
              a == registers[x]
              b == registers[Y(last_opcode')]
          IN /\ registers'[15] = (IF a + b > 255 THEN 1 ELSE 0)
             /\ x # 15 => registers'[x] = (a + b) % 256]_vars

\* C8 witness: an 8xy4 with x # F has carried
C8_AddCarried ==
    /\ Class(last_opcode) = 8 /\ Nibble(last_opcode) = 4 /\ X(last_opcode) # 15
    /\ registers[15] = 1 /\ halted = "running"

C10_ShiftSetsFlagToBitShiftedOut ==
    [][/\ AluStep(6) =>
            LET x == X(last_opcode')
                v == registers[x]
            IN /\ registers'[15] = v % 2
               /\ x # 15 => registers'[x] = v \div 2
       /\ AluStep(14) =>
            LET x == X(last_opcode')
                v == registers[x]
            IN /\ registers'[15] = v \div 128
               /\ x # 15 => registers'[x] = (v * 2) % 256]_vars

\* a step that executed exactly one instruction, outside a frame
InstructionStep == frames' = frames /\ frame_instrs' = frame_instrs + 1

IsDraw(opcode) == Class(opcode) = 13

\* bit c (most significant first) of the byte at I + r
SpriteBit(mem, i, r, c) == (Load(mem, i + r) \div (2 ^ (7 - c))) % 2 = 1

\* the cells of the sprite of n rows at I, placed at (vx, vy) with both axes wrapped
SpriteCells(mem, i, n, vx, vy) ==
    {((vy + r) % SCREEN_HEIGHT) * SCREEN_WIDTH + ((vx + c) % SCREEN_WIDTH) :
        <<r, c>> \in {rc \in (0 .. (n - 1)) \X (0 .. (SPRITE_WIDTH - 1)) :
                        SpriteBit(mem, i, rc[1], rc[2])}}

\* C11: Dxyn completes and toggles exactly the cells at column (Vx + c) mod 64 and
\* row (Vy + r) mod 32 of the bits set in memory[I + r], and no other cell.
C11_DrawTogglesWrappedCells ==
    [][(InstructionStep /\ IsDraw(last_opcode')) =>
          LET op == last_opcode'
              cells == SpriteCells(memory, register_i, Nibble(op),
                                   registers[X(op)], registers[Y(op)])
          IN /\ halted' = "running"
             /\ pixels' = (pixels \ cells) \cup (cells \ pixels)]_vars

\* C12: after a Dxyn, VF is 1 if the draw turned a lit cell off and 0 otherwise,
\* over the whole sprite and whatever VF held before.
C12_FlagIsCollisionOfWholeSprite ==
    [][(InstructionStep /\ IsDraw(last_opcode') /\ halted' = "running") =>
          registers'[15] = (IF pixels \ pixels' # {} THEN 1 ELSE 0)]_vars

\* C12 witness: a sprite of two rows drawn with a stale VF of 0 whose first row
\* turned a lit cell off and whose second row lit an unlit one
C12_CollisionInFirstRowOnly ==
    /\ frame_instrs = 1 /\ IsDraw(last_opcode) /\ Nibble(last_opcode) = 2
    /\ halted = "running" /\ origin.registers[15] = 0 /\ registers[15] = 1
    /\ origin.pixels \ pixels = {origin.registers[Y(last_opcode)] * SCREEN_WIDTH
                                   + origin.registers[X(last_opcode)]}
    /\ pixels \ origin.pixels = {(origin.registers[Y(last_opcode)] + 1) * SCREEN_WIDTH
                                   + origin.registers[X(last_opcode)]}

\* C13: the same Dxyn executed a second time, with I, Vx and Vy as they were before
\* the first, completes, returns every display cell to its value before the first
\* draw, and leaves VF = 1 iff the first draw lit a cell.
C13_DrawTwiceRestoresDisplay ==
    [][(/\ InstructionStep /\ frame_instrs = 1
        /\ IsDraw(last_opcode) /\ last_opcode' = last_opcode
        /\ register_i = origin.register_i
        /\ registers[X(last_opcode)] = origin.registers[X(last_opcode)]
        /\ registers[Y(last_opcode)] = origin.registers[Y(last_opcode)]) =>
          /\ halted' = "running"
          /\ pixels' = origin.pixels
          /\ registers'[15] = (IF pixels \ origin.pixels # {} THEN 1 ELSE 0)]_vars

\* the condition under which the skip instruction `opcode` skips; a key that the
\* keypad does not have is up
SkipCondition(opcode) ==
    LET vx == registers[X(opcode)]
        vy == registers[Y(opcode)]
        c == Class(opcode)
    IN  IF c = 3 THEN vx = Kk(opcode)
        ELSE IF c = 4 THEN vx # Kk(opcode)
        ELSE IF c = 5 THEN vx = vy
        ELSE IF c = 9 THEN vx # vy
        ELSE IF Kk(opcode) = 158 THEN vx < NUM_KEYS /\ pressed_keys[vx]
        ELSE ~(vx < NUM_KEYS /\ pressed_keys[vx])

\* C14: each of 3xkk, 4xkk, 5xy0, 9xy0, Ex9E, ExA1, for every register content and
\* every key state, completes and leaves PC at the pre-instruction PC + 4 when its
\* condition holds and at PC + 2 when it does not, changing nothing else.
C14_SkipAddsFourOrTwo ==
    [][(InstructionStep /\ last_opcode = -1) =>
          /\ halted' = "running"
          /\ pc' = pc + (IF SkipCondition(last_opcode') THEN 4 ELSE 2)
          /\ UNCHANGED <<memory, registers, register_i, stack, sp, delay_timer,
                         sound_timer, pixels, pressed_keys, waiting_for_key,
                         paused>>]_vars

IsStoreRegisters(opcode) == Class(opcode) = 15 /\ Kk(opcode) = 85
IsLoadRegisters(opcode) == Class(opcode) = 15 /\ Kk(opcode) = 101

\* C15: for every x and every I with I + x inside memory, Fx55 completes and leaves
\* I and the registers as they were; and Fx65, executed with the same I after Fx55
\* and after V0 .. Vx were set to zero, completes, restores V0 .. Vx (Vx included)
\* to the values they had before the Fx55, and leaves I as it was.
C15_StoreLoadRoundTrip ==
    [][/\ (/\ InstructionStep /\ IsStoreRegisters(last_opcode')
           /\ register_i + X(last_opcode') < MEMORY_SIZE) =>
              /\ halted' = "running"
              /\ register_i' = register_i /\ registers' = registers
       /\ (/\ InstructionStep /\ IsLoadRegisters(last_opcode')
           /\ origin.rom = RomBytes(StoreLoadRom(X(last_opcode')))
           /\ frame_instrs = X(last_opcode') + 2
           /\ \A i \in 0 .. X(last_opcode') : registers[i] = 0) =>
              /\ halted' = "running"
              /\ register_i' = register_i /\ register_i' = origin.register_i
              /\ \A i \in 0 .. X(last_opcode') : registers'[i] = origin.registers[i]
              /\ \A i \in 0 .. (NUM_REGISTERS - 1) :
                    i > X(last_opcode') => registers'[i] = registers[i]]_vars

\* C15 witness: all sixteen registers, each with a value of its own, stored at the
\* last sixteen bytes of memory, zeroed and loaded back
C15_AllRegistersRestored ==
    /\ IsLoadRegisters(last_opcode) /\ X(last_opcode) = NUM_REGISTERS - 1
    /\ frame_instrs = NUM_REGISTERS + 2 /\ halted = "running"
    /\ register_i = MEMORY_SIZE - NUM_REGISTERS
    /\ registers = origin.registers
    /\ \A i \in 0 .. (NUM_REGISTERS - 1) : registers[i] = i + 1

\* C19: in every reachable state memory[0 .. 80) holds the sixteen 5-byte digit
\* sprites loaded at creation.
C19_FontNeverOverwritten ==
    \A a \in 0 .. (FontSize - 1) : Load(memory, a) = SPRITES[(a \div 5) + 1][(a % 5) + 1]

\* C16: a fetched opcode that is no CHIP-8 instruction stops the machine with a
\* fatal illegal-opcode outcome and changes no register, memory, display or PC.
C16_UndefinedOpcodeIsFatal ==
    [][(InstructionStep /\ last_opcode = -1 /\ last_opcode' \in UndefinedOpcodes) =>
          /\ halted' = Unreachable
          /\ UNCHANGED <<pc, registers, register_i, memory, pixels, stack, sp>>]_vars

IsCall(opcode) == Class(opcode) = 2
IsReturn(opcode) == opcode = 238

\* the opcode stored at address a
OpcodeAt(mem, a) == Load(mem, a) * 256 + Load(mem, a + 1)

\* C17: while the machine runs the stack pointer is in 0..16 and every slot below it
\* holds the address of the 2nnn that pushed it; 2nnn pushes PC and 00EE loads PC
\* from the top slot; a 2nnn with 16 entries on the stack and a 00EE with none stop
\* the machine with a fatal outcome, with no slot written and PC not loaded.
C17_StackStaysWithinSixteen ==
    [][/\ halted' = "running" =>
            /\ sp' \in 0 .. STACK_SIZE
            /\ \A i \in 0 .. (sp' - 1) : IsCall(OpcodeAt(memory', stack'[i]))
       /\ (InstructionStep /\ IsCall(last_opcode') /\ sp < STACK_SIZE) =>
            /\ halted' = "running" /\ sp' = sp + 1
            /\ stack' = [stack EXCEPT ![sp] = pc] /\ pc' = Nnn(last_opcode')
       /\ (InstructionStep /\ IsCall(last_opcode') /\ sp = STACK_SIZE) =>
            halted' # "running" /\ UNCHANGED <<pc, stack, sp>>
       /\ (InstructionStep /\ IsReturn(last_opcode') /\ sp > 0) =>
            /\ halted' = "running" /\ sp' = sp - 1
            /\ stack' = stack /\ pc' = stack[sp - 1] + 2
       /\ (InstructionStep /\ IsReturn(last_opcode') /\ sp = 0) =>
            halted' # "running" /\ UNCHANGED <<pc, stack>>]_vars

\* C17 witness: sixteen calls filled the stack and the seventeenth stopped the machine
C17_SeventeenthCallStopped ==
    /\ halted # "running" /\ sp = STACK_SIZE /\ IsCall(last_opcode)
    /\ frame_instrs = STACK_SIZE + 1
    /\ \A i \in 0 .. (STACK_SIZE - 1) : stack[i] = PROGRAM_START

\* the outcome C18 names for a rom that does not fit
ProgramTooLarge == "program too large"

\* the machine has handled no frame and executed no instruction
AtCreation == frames = 0 /\ last_opcode = -1

\* C18: a rom longer than 3584 bytes is rejected with ProgramTooLarge before any
\* instruction executes; a rom of at most 3584 bytes is copied verbatim to
\* memory[0x200 .. 0x200 + len), with the font at memory[0 .. 80), PC = 0x200 and
\* all registers, SP and timers zero.
C18_RomLoadedOrRejected ==
    AtCreation =>
        IF Len(origin.rom) > 3584
        THEN halted = ProgramTooLarge
        ELSE /\ halted = "running"
             /\ \A i \in 1 .. Len(origin.rom) :
                   Load(memory, PROGRAM_START + i - 1) = origin.rom[i]
             /\ \A a \in 0 .. (FontSize - 1) :
                   Load(memory, a) = SPRITES[(a \div 5) + 1][(a % 5) + 1]
             /\ pc = PROGRAM_START /\ sp = 0 /\ delay_timer = 0 /\ sound_timer = 0
             /\ \A i \in 0 .. (NUM_REGISTERS - 1) : registers[i] = 0

\* C20, as stated: with the rom 00E0, 1200 the display stays all-unlit in every
\* state, and once an instruction has executed PC is 0x200 in every state.
C20_PcStabilizesAtStart ==
    /\ pixels = ClearedPixels
    /\ last_opcode # -1 => pc = PROGRAM_START

\* C20, amended: with the rom 00E0, 1200 the machine never stops and the display
\* stays all-unlit in every state, across any number of ticks and frames; PC does
\* not stabilize: 1200 at 0x202 jumps back to the 00E0 at 0x200, so PC alternates
\* between 0x200 and 0x202 with every instruction, and a running frame, of 15
\* instructions, leaves it at the other of the two addresses.
C20_DisplayStaysClearPcAlternates ==
    [][/\ pixels' = ClearedPixels /\ halted' = "running"
       /\ pc' \in {PROGRAM_START, PROGRAM_START + 2}
       /\ last_opcode' # -1 =>
             (pc' = PROGRAM_START + 2 <=> last_opcode' = Op(0, 0, 14, 0))
       /\ (FrameStep /\ ~paused) =>
             /\ frame_instrs' = speed
             /\ pc' = 2 * PROGRAM_START + 2 - pc
       /\ (FrameStep /\ paused) => pc' = pc]_vars

\* C20 witness: two running frames, with timer ticks, brought PC back to 0x200
C20_BackAtStartAfterTwoFrames ==
    /\ frames >= 2 /\ frame_instrs = speed /\ total_ticks >= 1
    /\ pc = PROGRAM_START /\ last_opcode = Op(1, 2, 0, 0) /\ pixels = ClearedPixels

IsLoadDigit(opcode) == Class(opcode) = 15 /\ Kk(opcode) = 41

\* the cells of the font pattern of digit d placed at (vx, vy), both axes wrapped
FontCells(d, vx, vy) ==
    {((vy + r) % SCREEN_HEIGHT) * SCREEN_WIDTH + ((vx + c) % SCREEN_WIDTH) :
        <<r, c>> \in {rc \in (0 .. 4) \X (0 .. (SPRITE_WIDTH - 1)) :
                        (SPRITES[d + 1][rc[1] + 1] \div (2 ^ (7 - rc[2]))) % 2 = 1}}

\* C21: with a digit d in 0..F in Vx, Fx29 sets I to 5 * d, and a following Dxy5 on
\* a cleared display at coordinates on the display (Vx in 0..63, Vy in 0..31)
\* completes, lights exactly the cells of the font pattern of d and leaves VF = 0.
C21_DigitDrawnFromFont ==
    [][/\ (InstructionStep /\ IsLoadDigit(last_opcode')
           /\ registers[X(last_opcode')] \in Digits) =>
              halted' = "running" /\ register_i' = 5 * registers[X(last_opcode')]
       /\ (/\ InstructionStep /\ IsDraw(last_opcode') /\ IsLoadDigit(last_opcode)
           /\ Nibble(last_opcode') = 5 /\ pixels = ClearedPixels
           /\ origin.registers[X(last_opcode)] \in Digits
           /\ registers[X(last_opcode')] < SCREEN_WIDTH
           /\ registers[Y(last_opcode')] < SCREEN_HEIGHT) =>
              /\ halted' = "running"
              /\ pixels' = FontCells(origin.registers[X(last_opcode)],
                                     registers[X(last_opcode')],
                                     registers[Y(last_opcode')])
              /\ registers'[15] = 0]_vars

IsJump(opcode) == Class(opcode) = 1
IsJumpOffset(opcode) == Class(opcode) = 11
IsSkip(opcode) == Class(opcode) \in {3, 4, 5, 9, 14}

\* C22 as stated: 1nnn, 2nnn and Bnnn set PC (to nnn, nnn and nnn + V0) and skip the
\* increment; every other completed instruction that is not a skip, 00EE included,
\* leaves PC at the pre-instruction PC + 2.
C22_OnlyJumpsSetPc ==
    [][(InstructionStep /\ halted' = "running") =>
        LET opcode == last_opcode'
        IN  IF IsJump(opcode) \/ IsCall(opcode) THEN pc' = Nnn(opcode)
            ELSE IF IsJumpOffset(opcode) THEN pc' = Nnn(opcode) + registers[0]
            ELSE IF IsSkip(opcode) THEN pc' \in {pc + 2, pc + 4}
            ELSE pc' = pc + 2]_vars

\* C22, amended: 1nnn, 2nnn and Bnnn set PC and skip the increment; 00EE sets PC to the
\* popped address and the increment follows, PC = stack[sp - 1] + 2; every other
\* completed instruction that is not a skip leaves PC at the pre-instruction PC + 2.
C22_ReturnSetsPcThenAdvances ==
    [][(InstructionStep /\ halted' = "running") =>
        LET opcode == last_opcode'
        IN  IF IsJump(opcode) \/ IsCall(opcode) THEN pc' = Nnn(opcode)
            ELSE IF IsJumpOffset(opcode) THEN pc' = Nnn(opcode) + registers[0]
            ELSE IF IsReturn(opcode) THEN pc' = stack[sp - 1] + 2
            ELSE IF IsSkip(opcode) THEN pc' \in {pc + 2, pc + 4}
            ELSE pc' = pc + 2]_vars

\* the jump through V0 has landed past its nnn, after the return resumed the caller
C22_JumpOffsetTaken ==
    /\ halted = "running" /\ IsJumpOffset(last_opcode) /\ registers[0] > 0
    /\ pc = Nnn(last_opcode) + registers[0] /\ last_pc # pc - 2
    /\ sp = 0 /\ stack[0] = PROGRAM_START + 4

\* a draw of the single pixel at (Vx, Vy)
IsTogglePixel(opcode) ==
    /\ IsDraw(opcode) /\ Nibble(opcode) = 1 /\ Load(memory, register_i) = 128
    /\ X(opcode) # 15 /\ Y(opcode) # 15

\* the cell at column x mod 64 of row y mod 32
WrappedCell(x, y) == (y % SCREEN_HEIGHT) * SCREEN_WIDTH + (x % SCREEN_WIDTH)

\* C23: for every x, y in 0..255, Screen.toggle(x, y) flips exactly the cell at column
\* x mod 64 of row y mod 32, leaves every other cell unchanged, and returns whether the
\* cell was lit (seen in VF after the one-pixel draw).
C23_ToggleFlipsWrappedCell ==
    [][(InstructionStep /\ IsTogglePixel(last_opcode')) =>
        LET cell == WrappedCell(registers[X(last_opcode')], registers[Y(last_opcode')])
        IN  /\ halted' = "running"
            /\ pixels' = (pixels \ {cell}) \cup ({cell} \ pixels)
            /\ registers'[15] = BoolToU8(cell \in pixels)]_vars

IsStoreBcd(opcode) == Class(opcode) = 15 /\ Kk(opcode) = 51

\* the last address an instruction reads or writes from I, or -1 if it addresses none
LastAddress(opcode, i) ==
    IF IsDraw(opcode) /\ Nibble(opcode) > 0 THEN i + Nibble(opcode) - 1
    ELSE IF IsStoreBcd(opcode) THEN i + 2
    ELSE IF IsStoreRegisters(opcode) \/ IsLoadRegisters(opcode) THEN i + X(opcode)
    ELSE -1

\* C24: no address outside 0..4095 is ever written; a fetch with PC >= 4095 stops the
\* machine with nothing executed; Dxyn, Fx33, Fx55 and Fx65 whose range from I passes
\* 4095 stop the machine, having written at most the bytes of the range up to 4095.
C24_AccessInMemoryOrFatal ==
    [][/\ DOMAIN memory' \subseteq 0 .. (MEMORY_SIZE - 1)
       /\ (halted = "running" /\ pc >= MEMORY_SIZE - 1) =>
              /\ halted' = OutOfBounds /\ frame_instrs' = frame_instrs
              /\ memory' = memory /\ registers' = registers /\ pixels' = pixels
       /\ (InstructionStep /\ LastAddress(last_opcode', register_i) >= MEMORY_SIZE) =>
              /\ halted' = OutOfBounds
              /\ \A a \in 0 .. (MEMORY_SIZE - 1) :
                    a < register_i => Load(memory', a) = Load(memory, a)
              /\ IF IsStoreBcd(last_opcode') \/ IsStoreRegisters(last_opcode')
                 THEN registers' = registers
                 ELSE memory' = memory]_vars

\* Fx55 stopped at the end of memory, the byte at 4095 written
C24_StoreStoppedAtEnd ==
    /\ halted = OutOfBounds /\ IsStoreRegisters(last_opcode)
    /\ register_i = MEMORY_SIZE - 1 /\ X(last_opcode) > 0
    /\ Load(memory, MEMORY_SIZE - 1) = registers[0] /\ registers[0] # 0

IsClear(opcode) == opcode = 224

\* C25: a class-0 opcode other than 00E0 and 00EE (0000 included) completes and changes
\* nothing but PC, which becomes PC + 2; 00E0 completes, leaves every cell of the
\* display unlit and changes nothing else but PC, which becomes PC + 2.
C25_SysIsNoOpClearOnlyClears ==
    [][(InstructionStep /\ Class(last_opcode') = 0 /\ ~IsReturn(last_opcode')) =>
        /\ halted' = "running" /\ pc' = pc + 2
        /\ pixels' = IF IsClear(last_opcode') THEN ClearedPixels ELSE pixels
        /\ UNCHANGED <<memory, registers, register_i, stack, sp, delay_timer,
                       sound_timer, pressed_keys, waiting_for_key, paused, lag>>]_vars

\* 0000 executed on a lit display
C25_ZeroOpcodeExecuted ==
    /\ last_opcode = 0 /\ halted = "running" /\ pc = PROGRAM_START + 2
    /\ pixels = origin.pixels /\ pixels # ClearedPixels

\* C26: for every value v of Vx (and I + 2 inside memory) Fx33 completes with
\* memory[I] = v div 100, memory[I+1] = (v div 10) mod 10, memory[I+2] = v mod 10,
\* three digits in 0..9 that give v back, and changes no register, not I, and no
\* other byte of memory.
C26_BcdDigitsOfEveryValue ==
    [][(InstructionStep /\ IsStoreBcd(last_opcode') /\ register_i + 2 < MEMORY_SIZE) =>
        LET v == registers[X(last_opcode')]
            h == Load(memory', register_i)
            t == Load(memory', register_i + 1)
            o == Load(memory', register_i + 2)
        IN  /\ halted' = "running"
            /\ h = v \div 100 /\ t = (v \div 10) % 10 /\ o = v % 10
            /\ {h, t, o} \subseteq 0 .. 9 /\ 100 * h + 10 * t + o = v
            /\ registers' = registers /\ register_i' = register_i
            /\ \A a \in (DOMAIN memory \cup DOMAIN memory')
                        \ (register_i .. (register_i + 2)) :
                   Load(memory', a) = Load(memory, a)
            /\ UNCHANGED <<stack, sp, delay_timer, sound_timer, pixels>>]_vars

\* 255 stored as 2, 5, 5 in the last three bytes of memory
C26_LargestValueStored ==
    /\ IsStoreBcd(last_opcode) /\ halted = "running"
    /\ registers[X(last_opcode)] = U8 - 1 /\ register_i = MEMORY_SIZE - 3
    /\ Load(memory, register_i) = 2 /\ Load(memory, register_i + 1) = 5
    /\ Load(memory, register_i + 2) = 5

\* C27: Fx55 with I + x inside memory completes, leaves memory[I + i] = Vi for every
\* i in 0..x, every other byte of memory and every register as it was; Fx65 with
\* I + x inside memory completes, leaves Vi = memory[I + i] for every i in 0..x,
\* the registers above Vx and all memory as they were.
C27_BlockStoreLoadFrame ==
    [][/\ (/\ InstructionStep /\ IsStoreRegisters(last_opcode')
           /\ register_i + X(last_opcode') < MEMORY_SIZE) =>
              LET block == register_i .. (register_i + X(last_opcode'))
              IN  /\ halted' = "running"
                  /\ \A a \in block : Load(memory', a) = registers[a - register_i]
                  /\ \A a \in (DOMAIN memory \cup DOMAIN memory') \ block :
                         Load(memory', a) = Load(memory, a)
                  /\ registers' = registers
       /\ (/\ InstructionStep /\ IsLoadRegisters(last_opcode')
           /\ register_i + X(last_opcode') < MEMORY_SIZE) =>
              /\ halted' = "running"
              /\ \A i \in 0 .. (NUM_REGISTERS - 1) :
                     registers'[i] = IF i <= X(last_opcode')
                                     THEN Load(memory, register_i + i)
                                     ELSE registers[i]
              /\ memory' = memory]_vars

\* F165 has loaded V0 and V1 from memory and kept V2, which differs from the byte
\* after the block
C27_TwoLoadedThirdKept ==
    /\ IsLoadRegisters(last_opcode) /\ X(last_opcode) = 1 /\ halted = "running"
    /\ registers[0] = Load(memory, register_i) /\ registers[0] # 0
    /\ registers[1] = Load(memory, register_i + 1) /\ registers[1] # 0
    /\ registers[2] = origin.registers[2]
    /\ registers[2] # Load(memory, register_i + 2)

\* the depth of the calls of the program loaded, a DeepRom
DepthLoaded == Len(origin.rom) \div 4 - 1

\* the stack pointer before the call at address a of a DeepRom
DepthOfCall(a) == IF a = PROGRAM_START THEN 0 ELSE (a - SubroutineStart) \div 4 + 1

\* C28: 2nnn at address A pushes A alone and sets PC = nnn; the matching 00EE pops it
\* and resumes at A + 2, the instruction after the call, with the stack pointer at its
\* value before the call; after k nested calls and their k returns, k up to 16, the
\* program is back after its first call with the stack empty.
C28_ReturnResumesAfterCall ==
    [][/\ (InstructionStep /\ IsCall(last_opcode')) =>
              /\ halted' = "running" /\ pc' = Nnn(last_opcode') /\ sp' = sp + 1
              /\ stack' = [stack EXCEPT ![sp] = pc]
              /\ sp = DepthOfCall(pc)
       /\ (InstructionStep /\ IsReturn(last_opcode')) =>
              LET a == pc' - 2
              IN  /\ halted' = "running" /\ stack' = stack
                  /\ IsCall(OpcodeAt(memory, a)) /\ a = stack[sp']
                  /\ sp' = sp - 1 /\ sp' = DepthOfCall(a)
       /\ frame_instrs' >= 2 * DepthLoaded =>
              halted' = "running" /\ sp' = 0 /\ pc' = PROGRAM_START + 2]_vars

\* sixteen nested calls, all returned from
C28_SixteenDeepReturned ==
    /\ DepthLoaded = STACK_SIZE /\ frame_instrs = 2 * STACK_SIZE
    /\ IsReturn(last_opcode) /\ halted = "running"
    /\ sp = 0 /\ pc = PROGRAM_START + 2
    /\ stack[STACK_SIZE - 1] = SubroutineStart + 4 * (STACK_SIZE - 2)

\* C29: while a key is awaited after Fx0A, from the frame that executed the Fx0A to
\* the key-down that satisfies it, no step changes the delay timer or the sound timer.
C29_TimersHeldWhileAwaitingKey ==
    [][(waiting_for_key # {} /\ waiting_for_key' # {}) =>
          delay_timer' = delay_timer /\ sound_timer' = sound_timer]_vars

C31_FontAddressIsFiveTimesVx ==
    [][(InstructionStep /\ IsLoadDigit(last_opcode')) =>
          /\ halted' = "running"
          /\ register_i' = 5 * registers[X(last_opcode')]]_vars

IsAddByte(opcode) == Class(opcode) = 7

\* C32: for every value v of Vx and every kk, 7xkk completes, with overflow checked
\* or not, leaves Vx = (v + kk) mod 256 and every other register, VF for x # F
\* included, as it was.
C32_AddByteWrapsWithoutFlag ==
    [][(InstructionStep /\ IsAddByte(last_opcode')) =>
          /\ halted' = "running" /\ pc' = pc + 2
          /\ registers' = [registers EXCEPT ![X(last_opcode')] =
                              (@ + Kk(last_opcode')) % 256]]_vars

\* a sum past 255 wrapped in a build that checks overflow, VF as it was
C32_SumWrappedFlagKept ==
    /\ IsAddByte(last_opcode) /\ X(last_opcode) # 15 /\ halted = "running"
    /\ overflow_checks
    /\ origin.registers[X(last_opcode)] + Kk(last_opcode) > U8
    /\ registers[X(last_opcode)] = origin.registers[X(last_opcode)] + Kk(last_opcode) - U8
    /\ registers[15] = origin.registers[15] /\ registers[15] > 1

====
